---------------------------- MODULE Spec2Model ----------------------------
(***************************************************************************)
(* The three loops of the pipeline:                                        *)
(*   features.py  the Feature Producer (publishes y_true and features),    *)
(*   metric.py    the Metric Correlator (process_message, the pending map   *)
(*                `data`, the csv log),                                    *)
(*   plot.py      the Error Visualizer (reads a csv, renders, saves).      *)
(* Numbers are integers; a JSON value, a Python value and a csv cell are   *)
(* tagged records so that values of different kinds can be compared.       *)
(***************************************************************************)
EXTENDS Integers, Sequences, FiniteSets, TLC

VARIABLES
    data,             \* metric.py: the pending map, id -> {role -> value}
    fs,               \* the file system: path -> NoFile or the file's lines
    corrPc,           \* metric.py: "consuming", "crashed" if a handler raised, "stopped" if not consuming
    n_delivered,      \* number of callbacks basic_consume has dispatched
    last_malformed,   \* whether the latest of them carried a malformed payload
    delivered_count,  \* per (queue, id): number of messages delivered with that id
    delivered_last,   \* per (queue, id): value field of the latest such message
    append_failed,    \* whether an append to metric_log.csv has failed so far
    prodPc,           \* features.py: position in the loop
    message_id,       \* features.py: id minted in the current tick
    random_row,       \* features.py: row sampled in the current tick
    clock,            \* wall clock read by datetime.now()
    published,        \* broker: queue -> messages published by features.py
    connection_open,  \* features.py: the pika connection
    n_ticks,          \* features.py: iterations started
    df,               \* plot.py: the frame read in the latest tick
    open_figures,     \* plot.py: figures pyplot holds open
    image,            \* error_distribution.png: the column plotted, or NoFile
    vis_ticks,        \* plot.py: iterations done
    vis_failed,       \* plot.py: iterations that ended in the except branch
    visPc,            \* plot.py: "running", or "terminated" if a tick raised
    slept,            \* plot.py: seconds slept at the end of the latest tick
    stdout_encodes    \* per script started (each a process of its own): whether its
                      \* sys.stdout can encode the Cyrillic messages it prints

corrVars == <<data, corrPc, n_delivered, last_malformed, delivered_count, delivered_last,
              append_failed>>
prodVars == <<prodPc, message_id, random_row, clock, published, connection_open, n_ticks>>
visVars  == <<df, open_figures, image, vis_ticks, vis_failed, visPc, slept>>
vars     == <<corrVars, fs, prodVars, visVars, stdout_encodes>>

----------------------------------------------------------------------------
(* Bounds *)

\* ids on the wire are the numbers below MaxId, and LongId
MaxId == 2
\* an id whose literal has two characters, the first of them an id as well
LongId == 10
\* values on the wire are the numbers 0..MaxVal
MaxVal == 1
\* callbacks dispatched to process_message in one run
MaxDeliveries == 2
\* the same, in a run that keeps the record of what was delivered
MaxRecordedDeliveries == 3
\* iterations of the producer loop in one run
MaxTicks == 3
\* rows of the dataset
NumRows == 2
\* iterations of the plotting loop in one run
MaxVisTicks == 3

----------------------------------------------------------------------------
(* Python / JSON values *)

None == [kind |-> "none", items |-> <<>>]

Num(n) == [kind |-> "number", items |-> <<n>>]

List(s) == [kind |-> "list", items |-> s]

IsNumber(v) == v.kind = "number"

\* bool(v): None, 0 and the empty list are falsy
Truthy(v) ==
    CASE v.kind = "none" -> FALSE
      [] v.kind = "number" -> v.items[1] # 0
      [] OTHER -> Len(v.items) > 0

\* a or b
PyOr(a, b) == IF Truthy(a) THEN a ELSE b

\* a dict key must be hashable: a list is not
Hashable(v) == v.kind # "list"

\* abs(a - b), defined on numbers only (TypeError otherwise)
AbsDiff(a, b) ==
    LET d == a.items[1] - b.items[1]
    IN  Num(IF d < 0 THEN -d ELSE d)

\* dict.get(key) with the default None
Get(message, key) == IF key \in DOMAIN message THEN message[key] ELSE None

\* the function with the empty domain: the dict {}
EmptyDict == [k \in {} |-> None]

\* d with d[k] = v
DictSet(d, k, v) == [x \in DOMAIN d \cup {k} |-> IF x = k THEN v ELSE d[x]]

\* d after del d[k]
DictDel(d, k) == [x \in DOMAIN d \ {k} |-> d[x]]

----------------------------------------------------------------------------
(* Message payloads *)

IdValues == {Num(i) : i \in 0..(MaxId - 1)} \cup {Num(LongId)}

NumberValues == {Num(n) : n \in 0..MaxVal}

\* `body` is a number or a sequence of numbers
BodyValues == NumberValues \cup {List(<<1>>)}

PredictionValues == NumberValues

FieldValues(k) ==
    CASE k = "id" -> IdValues
      [] k = "body" -> BodyValues
      [] OTHER -> PredictionValues

\* the field sets of an object: the value goes under `body` or under its
\* synonym `prediction`, and any field may be missing
FieldSets == {K \in SUBSET {"id", "body", "prediction"} : ~({"body", "prediction"} \subseteq K)}

Objects ==
    UNION { {f \in [K -> IdValues \cup BodyValues] : \A k \in K : f[k] \in FieldValues(k)}
            : K \in FieldSets }

\* a payload: bytes that are not JSON, a JSON array, or a JSON object
Payloads ==
    {[form |-> "invalid", fields |-> EmptyDict], [form |-> "array", fields |-> EmptyDict]}
    \cup {[form |-> "object", fields |-> o] : o \in Objects}

RoutingKeys == {"y_true", "y_pred"}


----------------------------------------------------------------------------
(* Files *)

\* os.path.join(dir, name)
PathJoin(dir, name) == Append(dir, name)

log_dir == <<"D:", "lab", "logs", "logs">>

\* the file log_error_to_csv appends to
MetricCsvPath == PathJoin(log_dir, "metric_log.csv")

\* the file plot.py reads
PlotCsvPath == <<"D:", "lab", "logs", "metric_log.csv">>

Paths == {MetricCsvPath, PlotCsvPath}

\* a file holds its text as a sequence of characters: digits, commas,
\* newlines
NoFile == [exists |-> FALSE, text |-> <<>>]

File(text) == [exists |-> TRUE, text |-> text]

Comma == [tok |-> "comma", n |-> 0]

Newline == [tok |-> "newline", n |-> 0]

\* a field that is not a number literal
TextCell == [tok |-> "text", n |-> 0]

\* the cell read_csv puts where a row has no field, or an empty one
NaNCell == [tok |-> "nan", n |-> 0]

NumCell(n) == [tok |-> "num", n |-> n]

\* the decimal literal of n, digit by digit
RECURSIVE Decimal(_)
Decimal(n) ==
    IF n < 10 THEN <<NumCell(n)>>
    ELSE Append(Decimal(n \div 10), NumCell(n % 10))

\* str(v) inside the f-string: a number prints as its literal
Str(v) == IF IsNumber(v) THEN Decimal(v.items[1]) ELSE <<TextCell>>

\* f"{message_id},{y_true},{y_pred},{error}\n"
FormatRow(id, y_true, y_pred, error) ==
    Str(id) \o <<Comma>> \o Str(y_true) \o <<Comma>> \o Str(y_pred) \o <<Comma>>
        \o Str(error) \o <<Newline>>

\* the lines of a text, `current` being the line begun so far: a newline ends
\* a line, the text after the last newline is a line when it is not empty,
\* and a blank line is none
RECURSIVE SplitText(_, _)
SplitText(text, current) ==
    IF text = <<>> THEN (IF current = <<>> THEN <<>> ELSE <<current>>)
    ELSE IF Head(text) = Newline
    THEN (IF current = <<>> THEN <<>> ELSE <<current>>) \o SplitText(Tail(text), <<>>)
    ELSE SplitText(Tail(text), Append(current, Head(text)))

Lines(text) == SplitText(text, <<>>)

\* the number of decimal digits of n
RECURSIVE Digits(_)
Digits(n) == IF n < 10 THEN 1 ELSE 1 + Digits(n \div 10)

RECURSIVE Pow10(_)
Pow10(k) == IF k = 0 THEN 1 ELSE 10 * Pow10(k - 1)

\* the field made of the characters between two commas: nothing reads as
\* NaN, digits read as the number they spell
RECURSIVE Cell(_)
Cell(tokens) ==
    IF tokens = <<>> THEN NaNCell
    ELSE IF Len(tokens) = 1 THEN tokens[1]
    ELSE LET init == Cell(SubSeq(tokens, 1, Len(tokens) - 1))
             last == tokens[Len(tokens)]
         IN  IF init.tok = "num" /\ last.tok = "num"
             THEN NumCell(init.n * Pow10(Digits(last.n)) + last.n)
             ELSE TextCell

\* the fields of a line, `current` being the tokens of the field begun so
\* far: a comma ends a field
RECURSIVE SplitFields(_, _)
SplitFields(line, current) ==
    IF line = <<>> THEN <<Cell(current)>>
    ELSE IF Head(line) = Comma
    THEN <<Cell(current)>> \o SplitFields(Tail(line), <<>>)
    ELSE SplitFields(Tail(line), Append(current, Head(line)))

SplitLine(line) == SplitFields(line, <<>>)

\* open(path, mode='a') creates the file when it is absent; what is written
\* goes after the text the file holds
Write(f, path, text) ==
    [f EXCEPT ![path] = File(f[path].text \o text)]

\* the number of characters of the longest row
RowLength ==
    LET lengths == {Len(FormatRow(id, g, p, AbsDiff(g, p))) :
                        id \in IdValues, g \in NumberValues, p \in NumberValues}
    IN  CHOOSE n \in lengths : \A m \in lengths : m <= n

\* what can become of an append: open raises, or the file is opened and the
\* first `flushed` characters of the row reach it before write, flush or
\* close raises, or the whole row does
WriteOutcomes ==
    {[opened |-> FALSE, flushed |-> 0]} \cup
    {[opened |-> TRUE, flushed |-> k] : k \in 0..RowLength}

\* the outcome in which nothing raises
WriteComplete == [opened |-> TRUE, flushed |-> RowLength]

\* whatever raises inside the try is logged by `except Exception` and the
\* function returns; the file keeps the characters that had reached it
log_error_to_csv(f, id, y_true, y_pred, error, outcome) ==
    LET row == FormatRow(id, y_true, y_pred, error)
    IN  IF ~outcome.opened THEN f
        ELSE IF outcome.flushed >= Len(row) THEN Write(f, MetricCsvPath, row)
        ELSE Write(f, MetricCsvPath, SubSeq(row, 1, outcome.flushed))

----------------------------------------------------------------------------
(* metric.py: process_message *)

JSONDecodeError == [ok |-> FALSE, form |-> "invalid", fields |-> EmptyDict]

\* json.loads(body)
json_loads(body) ==
    IF body.form = "invalid" THEN JSONDecodeError
    ELSE [ok |-> TRUE, form |-> body.form, fields |-> body.fields]

\* MissingId without the test: every id passes
MissingId_never(id) == FALSE

\* `if not message_id`
MissingId(id) == ~Truthy(id)

\* message.get('body') or message.get('prediction')
SelectValue(message) == PyOr(Get(message, "body"), Get(message, "prediction"))

\* `if value is None`
MissingValue(value) == value = None

\* Upsert that replaces the entry instead of adding the role to it
Upsert_replacing(d, routing_key, id, value) ==
    DictSet(d, id, DictSet(EmptyDict, routing_key, value))

\* data[message_id] = data.get(message_id, {}); data[message_id][routing_key] = value
Upsert(d, routing_key, id, value) ==
    LET entry == IF id \in DOMAIN d THEN d[id] ELSE EmptyDict
    IN  DictSet(d, id, DictSet(entry, routing_key, value))

\* 'y_true' in data[message_id] and 'y_pred' in data[message_id]
BothPresent(entry) == "y_true" \in DOMAIN entry /\ "y_pred" \in DOMAIN entry

\* the outcome of a call: the pending map, the files, and whether an
\* exception left the handler
Outcome(d, f, raised) == [data |-> d, fs |-> f, raised |-> raised]

\* `except Exception`: logged, the handler returns
CaughtException(d, f) == Outcome(d, f, FALSE)

\* `except json.JSONDecodeError`: logged, the handler returns
CaughtDecodeError(d, f) == Outcome(d, f, FALSE)

\* lines 45-51, on the map d1 left by the upsert; the entry is deleted
\* whether or not log_error_to_csv wrote the row
CompleteEntry(d1, f, id, outcome) ==
    IF id \notin DOMAIN d1 THEN CaughtException(d1, f)              \* KeyError
    ELSE IF ~BothPresent(d1[id]) THEN Outcome(d1, f, FALSE)
    ELSE LET y_true == d1[id]["y_true"]
             y_pred == d1[id]["y_pred"]
         IN  IF ~(IsNumber(y_true) /\ IsNumber(y_pred))
             THEN CaughtException(d1, f)                             \* TypeError in y_true - y_pred
             ELSE Outcome(DictDel(d1, id),
                          log_error_to_csv(f, id, y_true, y_pred,
                                           AbsDiff(y_true, y_pred), outcome),
                          FALSE)

process_message(d, f, routing_key, body, outcome) ==
    LET decoded == json_loads(body)
    IN  IF ~decoded.ok THEN CaughtDecodeError(d, f)
        ELSE IF decoded.form # "object" THEN CaughtException(d, f)   \* no .get on a list
        ELSE LET message == decoded.fields
                 id      == Get(message, "id")
                 value   == SelectValue(message)
             IN  IF MissingId(id) THEN Outcome(d, f, FALSE)
                 ELSE IF MissingValue(value) THEN Outcome(d, f, FALSE)
                 ELSE IF routing_key \in {"y_true", "y_pred"}
                      THEN IF ~Hashable(id) THEN CaughtException(d, f)   \* unhashable key
                           ELSE CompleteEntry(Upsert(d, routing_key, id, value), f, id, outcome)
                      ELSE IF ~Hashable(id) THEN CaughtException(d, f)
                           ELSE CompleteEntry(d, f, id, outcome)

----------------------------------------------------------------------------
(* What the wire format says of a payload *)

\* has an id field and a value field (body, or its synonym prediction)
WellFormed(body) ==
    /\ body.form = "object"
    /\ "id" \in DOMAIN body.fields
    /\ ("body" \in DOMAIN body.fields \/ "prediction" \in DOMAIN body.fields)

Malformed(body) == ~WellFormed(body)

\* the value a well-formed payload carries
WireValue(body) ==
    IF "body" \in DOMAIN body.fields THEN body.fields["body"] ELSE body.fields["prediction"]

WireId(body) == body.fields["id"]

----------------------------------------------------------------------------
(* metric.py: the consuming loop *)

\* basic_consume dispatches one message of queue routing_key to
\* process_message; outcome is what becomes of the log append, if one is made
Deliver(routing_key, body, outcome) ==
    /\ corrPc = "consuming"
    /\ LET r == process_message(data, fs, routing_key, body, outcome)
       IN  /\ data' = r.data
           /\ fs' = r.fs
           /\ corrPc' = IF r.raised THEN "crashed" ELSE "consuming"
    /\ n_delivered' = n_delivered + 1
    /\ last_malformed' = Malformed(body)
    /\ append_failed' =
          (\/ append_failed
           \/ process_message(data, fs, routing_key, body, outcome).fs
                 # process_message(data, fs, routing_key, body, WriteComplete).fs)
    /\ UNCHANGED <<prodVars, visVars, stdout_encodes>>

\* the record of what was delivered, per queue and id
Record(routing_key, body) ==
    IF WellFormed(body)
    THEN /\ delivered_count' =
                [delivered_count EXCEPT ![<<routing_key, WireId(body)>>] = @ + 1]
         /\ delivered_last' =
                [delivered_last EXCEPT ![<<routing_key, WireId(body)>>] = WireValue(body)]
    ELSE UNCHANGED <<delivered_count, delivered_last>>

\* a delivery, with the record kept
DeliverRecorded(routing_key, body, outcome) ==
    /\ n_delivered < MaxRecordedDeliveries
    /\ Deliver(routing_key, body, outcome)
    /\ Record(routing_key, body)

\* a delivery, with no record kept
DeliverUnrecorded(routing_key, body, outcome) ==
    /\ n_delivered < MaxDeliveries
    /\ Deliver(routing_key, body, outcome)
    /\ UNCHANGED <<delivered_count, delivered_last>>

CorrelatorNext ==
    \E routing_key \in RoutingKeys, body \in Payloads, outcome \in WriteOutcomes :
        DeliverUnrecorded(routing_key, body, outcome)

RecordedNext ==
    \E routing_key \in RoutingKeys, body \in Payloads, outcome \in WriteOutcomes :
        DeliverRecorded(routing_key, body, outcome)

\* print('...') before start_consuming: when stdout cannot encode it, the
\* UnicodeEncodeError is caught at line 76 and the script ends without consuming
\* (as it does not consume where metric.py is not started)
InitCorrelator ==
    /\ data = EmptyDict
    /\ corrPc = (IF "metric.py" \in DOMAIN stdout_encodes /\ stdout_encodes["metric.py"]
                 THEN "consuming"
                 ELSE "stopped")
    /\ n_delivered = 0
    /\ last_malformed = FALSE
    /\ append_failed = FALSE
    /\ delivered_count = [x \in RoutingKeys \X IdValues |-> 0]
    /\ delivered_last = [x \in RoutingKeys \X IdValues |-> None]

----------------------------------------------------------------------------
(* The log as a sequence of ErrorRecords *)

\* the lines metric_log.csv holds
LogLines == Lines(fs[MetricCsvPath].text)

\* field k of a line, NaN where the line has fewer fields
Field(line, k) ==
    LET fields == SplitLine(line)
    IN  IF k <= Len(fields) THEN fields[k] ELSE NaNCell

\* the ErrorRecord (id, ground_truth, prediction, absolute_error) as a line
RecordLine(id, g, p) == Lines(FormatRow(id, g, p, AbsDiff(g, p)))[1]

\* positions of the log's records for id
RecordsOf(id) == {k \in 1..Len(LogLines) : Field(LogLines[k], 1) = Cell(Str(id))}

----------------------------------------------------------------------------
(* features.py: the producer loop *)

\* time.sleep(10) at the end of a tick
TickDelay == 10

\* y[random_row]: the target of a row, a positive number
TargetOf(row) == Num(row + 1)

\* list(X[random_row]): the feature vector of a row
FeaturesOf(row) == List(<<row, row + 1>>)

\* json.dumps of a dict
json_dumps(message) == [form |-> "object", fields |-> message]

message_y_true == [k \in {"id", "body"} |-> IF k = "id" THEN message_id ELSE TargetOf(random_row)]

message_features == [k \in {"id", "body"} |-> IF k = "id" THEN message_id ELSE FeaturesOf(random_row)]

\* PublishOrder with the two calls exchanged
PublishOrder_swapped == <<"features", "y_true">>

\* the queues of the two basic_publish calls of a tick, in program order
PublishOrder == <<"y_true", "features">>

MessageFor(queue) == IF queue = "y_true" THEN message_y_true ELSE message_features

\* lines 23-37: sample a row, mint the id from the wall clock
ProdSample ==
    /\ prodPc = "sample"
    /\ n_ticks < MaxTicks
    /\ \E row \in 0..(NumRows - 1), elapsed \in 0..1 :
          /\ random_row' = row
          /\ clock' = clock + elapsed
          /\ message_id' = Num(clock + elapsed)
    /\ n_ticks' = n_ticks + 1
    /\ prodPc' = "publish_1"
    /\ UNCHANGED <<published, connection_open, corrVars, fs, visVars, stdout_encodes>>

\* basic_publish number k of the tick and the print after it: the publish
\* enqueues, or raises; the print raises when stdout cannot encode its text.
\* An exception leaves the loop through `finally`, which closes the connection
ProdPublish(k, delivered) ==
    /\ prodPc = (IF k = 1 THEN "publish_1" ELSE "publish_2")
    /\ IF delivered
       THEN /\ published' = [published EXCEPT ![PublishOrder[k]] =
                                 Append(@, json_dumps(MessageFor(PublishOrder[k])))]
            /\ IF stdout_encodes["features.py"]
               THEN /\ prodPc' = (IF k = 1 THEN "publish_2" ELSE "sleep")
                    /\ UNCHANGED connection_open
               ELSE /\ prodPc' = "closed"
                    /\ connection_open' = FALSE
       ELSE /\ prodPc' = "closed"
            /\ connection_open' = FALSE
            /\ UNCHANGED published
    /\ UNCHANGED <<message_id, random_row, clock, n_ticks, corrVars, fs, visVars,
                   stdout_encodes>>

\* time.sleep(10)
ProdSleep ==
    /\ prodPc = "sleep"
    /\ clock' = clock + TickDelay
    /\ prodPc' = "sample"
    /\ UNCHANGED <<message_id, random_row, published, connection_open, n_ticks,
                   corrVars, fs, visVars, stdout_encodes>>

\* KeyboardInterrupt: `except KeyboardInterrupt`, then `finally`
ProdInterrupt ==
    /\ prodPc # "closed"
    /\ prodPc' = "closed"
    /\ connection_open' = FALSE
    /\ UNCHANGED <<message_id, random_row, clock, published, n_ticks, corrVars, fs, visVars,
                   stdout_encodes>>

ProducerNext ==
    \/ ProdSample
    \/ \E k \in 1..2, delivered \in BOOLEAN : ProdPublish(k, delivered)
    \/ ProdSleep
    \/ ProdInterrupt

----------------------------------------------------------------------------
(* plot.py: the plotting loop *)

\* time.sleep(10) after a render
PlotDelay == 10

\* time.sleep(10) in the except branch
PlotErrorDelay == 10

ReadError == [ok |-> FALSE, frame |-> <<>>]

\* a row of the frame: the fields of a line, padded with NaN to ncols
PadRow(fields, ncols) ==
    [c \in 1..ncols |-> IF c <= Len(fields) THEN fields[c] ELSE NaNCell]

\* pd.read_csv(path, header=None): raises when the file is absent, has no
\* rows, or a row has more fields than the first one
read_csv(file) ==
    IF ~file.exists \/ Lines(file.text) = <<>> THEN ReadError
    ELSE LET lines == Lines(file.text)
             rows  == [k \in 1..Len(lines) |-> SplitLine(lines[k])]
             ncols == Len(rows[1])
         IN  IF \E k \in 1..Len(rows) : Len(rows[k]) > ncols THEN ReadError
             ELSE [ok |-> TRUE, frame |-> [k \in 1..Len(rows) |-> PadRow(rows[k], ncols)]]

\* df.iloc[:, 3]: the fourth column (IndexError when there are fewer)
HasErrorColumn(frame) == Len(frame[1]) >= 4

ErrorColumn(frame) == [k \in 1..Len(frame) |-> frame[k][4]]

\* df['absolute_error'] = df.iloc[:, 3]: the frame with the column added
WithErrorColumn(frame) ==
    [k \in 1..Len(frame) |-> Append(frame[k], frame[k][4])]

\* sns.kdeplot refuses a column read as text; a column of numbers, with or
\* without NaN, is drawn or not as `rendered` says
Plottable(column) == \A k \in 1..Len(column) : column[k].tok # "text"

\* one iteration of `while True`; rendered says whether hist, kdeplot and
\* savefig went through on a plottable column. The prints of lines 12 and 38
\* raise when stdout cannot encode their text: the one of line 38 is in the
\* except branch, so the exception leaves the loop
VisTick(rendered) ==
    /\ visPc = "running"
    /\ vis_ticks < MaxVisTicks
    /\ LET read == read_csv(fs[PlotCsvPath])
       IN  IF ~stdout_encodes["plot.py"]
           THEN \* line 9, then line 12 or line 9 raises, then line 38 raises
                /\ df' = (IF read.ok THEN read.frame ELSE df)
                /\ UNCHANGED <<open_figures, image, slept>>
                /\ vis_failed' = vis_failed + 1
                /\ visPc' = "terminated"
           ELSE IF ~read.ok
           THEN /\ UNCHANGED <<df, open_figures, image>>
                /\ vis_failed' = vis_failed + 1
                /\ slept' = PlotErrorDelay
                /\ visPc' = "running"
           ELSE IF ~HasErrorColumn(read.frame)
           THEN /\ df' = read.frame
                /\ UNCHANGED <<open_figures, image>>
                /\ vis_failed' = vis_failed + 1
                /\ slept' = PlotErrorDelay
                /\ visPc' = "running"
           ELSE /\ df' = WithErrorColumn(read.frame)
                /\ visPc' = "running"
                /\ IF Plottable(ErrorColumn(read.frame)) /\ rendered
                   THEN \* plt.figure ... plt.savefig, plt.close
                        /\ image' = File(ErrorColumn(read.frame))
                        /\ open_figures' = (open_figures + 1) - 1
                        /\ vis_failed' = vis_failed
                        /\ slept' = PlotDelay
                   ELSE \* plt.figure was called, plt.close is not reached
                        /\ open_figures' = open_figures + 1
                        /\ UNCHANGED image
                        /\ vis_failed' = vis_failed + 1
                        /\ slept' = PlotErrorDelay
    /\ vis_ticks' = vis_ticks + 1
    /\ UNCHANGED <<corrVars, fs, prodVars, stdout_encodes>>

VisualizerNext == \E rendered \in BOOLEAN : VisTick(rendered)

----------------------------------------------------------------------------
(* Initial states and specifications *)

InitProducer ==
    /\ prodPc = "sample"
    /\ message_id = None
    /\ random_row = 0
    /\ clock = 1
    /\ published = [q \in {"y_true", "features"} |-> <<>>]
    /\ connection_open = TRUE
    /\ n_ticks = 0

InitVisualizer ==
    /\ df = <<>>
    /\ open_figures = 0
    /\ image = NoFile
    /\ vis_ticks = 0
    /\ vis_failed = 0
    /\ visPc = "running"
    /\ slept = 0

\* metric.py started alone; logs is created empty by os.makedirs and nothing
\* has been written
Init ==
    /\ stdout_encodes \in [{"metric.py"} -> BOOLEAN]
    /\ InitCorrelator
    /\ InitProducer
    /\ InitVisualizer
    /\ fs = [p \in Paths |-> NoFile]

\* features.py started alone
InitFeatures ==
    /\ stdout_encodes \in [{"features.py"} -> BOOLEAN]
    /\ InitCorrelator
    /\ InitProducer
    /\ InitVisualizer
    /\ fs = [p \in Paths |-> NoFile]

\* a row of four number fields
GoodLine(e) == FormatRow(Num(1), Num(e), Num(0), Num(e))

\* what plot.py may find at the path it reads, which no component writes
FoundLogs ==
    { NoFile,
      File(<<>>),
      File(GoodLine(1)),
      File(GoodLine(1) \o GoodLine(2)),
      File(GoodLine(1) \o <<NumCell(1), Comma, NumCell(2), Newline>>),
      File(GoodLine(1) \o <<NumCell(1), Comma, NumCell(2), Comma, NumCell(0), Comma,
                            NumCell(2), Comma, NumCell(0), Newline>>),
      File(<<NumCell(1), Comma, NumCell(2), Comma, NumCell(3), Newline>>),
      File(<<NumCell(1), Comma, NumCell(2), Comma, NumCell(3), Comma, TextCell, Newline>>) }

\* metric.py and plot.py started, each with a stdout of its own
InitPipeline ==
    /\ stdout_encodes \in [{"metric.py", "plot.py"} -> BOOLEAN]
    /\ InitCorrelator
    /\ InitProducer
    /\ InitVisualizer
    /\ \E found \in FoundLogs :
          fs = [p \in Paths |-> IF p = PlotCsvPath THEN found ELSE NoFile]

\* the Correlator under every sequence of deliveries
Next == CorrelatorNext

Spec == Init /\ [][Next]_vars

\* the Producer alone
SpecProducer == InitFeatures /\ [][ProducerNext]_vars

\* the Correlator under every sequence of deliveries, with the record of what
\* was delivered per queue and id
SpecRecorded == Init /\ [][RecordedNext]_vars

\* the Correlator and the Visualizer, coupled by the file system only
PipelineNext ==
    \/ CorrelatorNext
    \/ VisualizerNext

SpecPipeline == InitPipeline /\ [][PipelineNext]_vars

----------------------------------------------------------------------------
(* Order of arrival *)

\* per id, the payloads that carry it and a value field
PayloadsOf == [id \in IdValues |-> {b \in Payloads : WellFormed(b) /\ WireId(b) = id}]

WithId(id) == PayloadsOf[id]

\* process_message handling (routing_key, body) in the state `before`
Then(before, routing_key, body, outcome) ==
    process_message(before.data, before.fs, routing_key, body, outcome)

\* for every pair of a ground-truth and a prediction message with id, and
\* whatever becomes of the log append the pair leads to: ground truth then
\* prediction leaves the pending map and the files that prediction then ground
\* truth leaves
OrderIndependent(id) ==
    \A outcome \in WriteOutcomes, gt \in WithId(id) :
        LET afterTrue == process_message(data, fs, "y_true", gt, outcome)
        IN  \A pr \in WithId(id) :
                LET afterPred == process_message(data, fs, "y_pred", pr, outcome)
                IN  Then(afterTrue, "y_pred", pr, outcome) = Then(afterPred, "y_true", gt, outcome)

\* C2 as stated: from every state the Correlator reaches, for every id and
\* every pair of a ground-truth and a prediction message with that id, the
\* two orders of handling leave the same pending map and the same log.
C2_OrderIndependentAnyState ==
    \A id \in IdValues : OrderIndependent(id)

\* C2 amended: the two orders of handling leave the same pending map and the
\* same log whenever the prior state holds no pending entry for the id.
C2_OrderIndependentFresh ==
    \A id \in IdValues : id \notin DOMAIN data => OrderIndependent(id)

\* id 1 has no pending entry and the pair delivered with it was logged
C2_Witness ==
    /\ Num(1) \notin DOMAIN data
    /\ n_delivered = 2
    /\ ~append_failed
    /\ RecordsOf(Num(1)) # {}

\* C4: a step that handles a malformed payload (not JSON, no id, or neither
\* body nor prediction) appends no record, leaves the pending map as it was,
\* and the handler returns normally, so the loop goes on consuming.
C4_MalformedIsSkipped ==
    [][(n_delivered' # n_delivered /\ last_malformed') =>
          /\ data' = data
          /\ fs' = fs
          /\ corrPc' = "consuming"]_vars

\* a malformed payload was handled while an entry was pending
C4_Witness ==
    /\ last_malformed
    /\ corrPc = "consuming"
    /\ data # EmptyDict

----------------------------------------------------------------------------
(* Pairs, pending entries and the log *)

\* the line LogLines gained last
LastLine == LogLines[Len(LogLines)]

\* the column of a record that holds the value of a role
RoleColumn(routing_key) == IF routing_key = "y_true" THEN 2 ELSE 3

Min(a, b) == IF a < b THEN a ELSE b

\* C1: when exactly one ground-truth message and exactly one prediction
\* message were delivered with an id, each with a numeric value, and no append
\* to the log has failed, the log holds exactly one record for the id and it
\* is (id, g, p, |g - p|).
C1_ExactlyOneRecord ==
    \A id \in IdValues :
        LET g == delivered_last[<<"y_true", id>>]
            p == delivered_last[<<"y_pred", id>>]
        IN  (/\ delivered_count[<<"y_true", id>>] = 1
             /\ delivered_count[<<"y_pred", id>>] = 1
             /\ IsNumber(g) /\ IsNumber(p)
             /\ ~append_failed)
            => /\ Cardinality(RecordsOf(id)) = 1
               /\ \A k \in RecordsOf(id) : LogLines[k] = RecordLine(id, g, p)

\* C3: after process_message returns, no entry of the pending map holds both
\* a y_true and a y_pred value.
C3_NoCompleteEntryPending ==
    \A id \in DOMAIN data : ~BothPresent(data[id])

\* C5: a delivered message whose id and value fields are both present, with a
\* numeric id and a numeric value (0 included), is upserted: after the step the
\* pending entry of the id holds the value under the message's role, or the
\* value completed the entry that held the other role and the entry is gone
\* (the line the log gained for it, no append having failed, carrying the id
\* and the value).
C5_PresentFieldsAreUpserted ==
    [][\A x \in RoutingKeys \X IdValues :
          (delivered_count'[x] # delivered_count[x] /\ IsNumber(delivered_last'[x]))
          => \/ /\ x[2] \in DOMAIN data'
                /\ x[1] \in DOMAIN data'[x[2]]
                /\ data'[x[2]][x[1]] = delivered_last'[x]
             \/ /\ x[2] \notin DOMAIN data'
                /\ x[2] \in DOMAIN data
                /\ DOMAIN data[x[2]] \ {x[1]} # {}
                /\ (~append_failed' /\ Len(LogLines') # Len(LogLines)) =>
                      /\ Field(LastLine', 1) = Cell(Str(x[2]))
                      /\ Field(LastLine', RoleColumn(x[1])) = Cell(Str(delivered_last'[x]))]_vars

\* C6: while messages of only one role have been delivered with an id, the log
\* holds no record for the id and the pending entry of the id is in the map.
C6_OneRoleStaysPending ==
    \A id \in IdValues :
        LET t == delivered_count[<<"y_true", id>>]
            p == delivered_count[<<"y_pred", id>>]
        IN  ((t > 0 /\ p = 0) \/ (t = 0 /\ p > 0))
            => /\ RecordsOf(id) = {}
               /\ id \in DOMAIN data

\* C10: no append having failed, the records of an id are at most as many as
\* the y_true messages and as the y_pred messages delivered with that id, and
\* a record, when it is appended, pairs the value delivered last for each
\* role of its id.
C10_RecordsPairLatestValues ==
    [][~append_failed' =>
          /\ \A id \in IdValues :
                Cardinality(RecordsOf(id))' <=
                    Min(delivered_count'[<<"y_true", id>>], delivered_count'[<<"y_pred", id>>])
          /\ Len(LogLines') # Len(LogLines) =>
                \E id \in IdValues :
                    LET g == delivered_last'[<<"y_true", id>>]
                        p == delivered_last'[<<"y_pred", id>>]
                    IN  /\ IsNumber(g) /\ IsNumber(p)
                        /\ LastLine' = RecordLine(id, g, p)]_vars

----------------------------------------------------------------------------
(* The Producer's queues *)

\* the y_true queue is ahead of the features queue by at most one message and
\* matches it, position by position, in the id
Paired(queues) ==
    LET t == queues["y_true"]
        f == queues["features"]
    IN  /\ Len(t) - Len(f) \in {0, 1}
        /\ \A k \in 1..Len(f) :
              /\ k <= Len(t)
              /\ t[k].fields["id"] = f[k].fields["id"]

\* C7: after every step the features messages published so far are matched,
\* position by position, by y_true messages with the same id published before
\* them, the y_true queue is ahead by at most one message, and once the loop
\* is left (a failed publish, an interrupt) nothing more is published.
C7_TruthBeforeFeatures ==
    [][/\ Paired(published')
       /\ prodPc = "closed" => (published' = published /\ prodPc' = "closed")]_vars

\* the loop was left in the second tick between the two publishes
C7_Witness ==
    /\ prodPc = "closed"
    /\ Len(published["y_true"]) = 2
    /\ Len(published["features"]) = 1

----------------------------------------------------------------------------
(* The log between the Correlator and the Visualizer *)

\* C8: whenever the Correlator has appended records, no append having failed,
\* a tick of the Visualizer reads those rows, and the fourth column it
\* extracts holds, row by row, the absolute_error of the Correlator's records.
C8_VisualizerReadsCorrelatorLog ==
    [][(vis_ticks' # vis_ticks /\ Len(LogLines) > 0 /\ ~append_failed)
       => /\ Len(df') = Len(LogLines)
          /\ HasErrorColumn(df')
          /\ \A k \in 1..Len(LogLines) :
                ErrorColumn(df')[k] = Field(LogLines[k], 4)]_vars

\* C9: the Visualizer never terminates, every tick ends with the same delay,
\* failed or not, and a tick leaves nothing behind for the next one (no figure
\* stays open in pyplot).
C9_TicksLeaveNoState ==
    /\ visPc = "running"
    /\ vis_ticks > 0 => slept = PlotDelay
    /\ open_figures = 0

============================================================================
